---------------------------- MODULE Spec2Model ----------------------------
(***************************************************************************)
(* Model of the RAMP uploader:                                             *)
(*   src/main.py         export_and_upload   (warehouse export + relay)    *)
(*   src/sftp_upload.py  upload_to_sftp, process_csv_upload                *)
(*                                                                         *)
(* SpecExport  one invocation of export_and_upload.                        *)
(* Spec        one invocation of process_csv_upload (upload_to_sftp is     *)
(*             stepped through inside it).                                 *)
(* SpecConc    two concurrent invocations of process_csv_upload.           *)
(*                                                                         *)
(* Calls into libraries (warehouse client, requests, paramiko, the local   *)
(* filesystem) either succeed or raise; which one is chosen                *)
(* nondeterministically, except for the local filesystem, whose answers    *)
(* are determined by the modelled directory contents.                      *)
(***************************************************************************)
EXTENDS Integers, Sequences, FiniteSets, TLC

\* ---------------------------------------------------------------- bounds
\* Largest number of rows in a modelled query result.
MaxRows == 2

\* ------------------------------------------------------------ export state
VARIABLES
    epc,          \* position of export_and_upload
    encoded_key,  \* os.environ.get('SERVICE_ACCOUNT_KEY')
    schema,       \* results.schema (sequence of column names)
    rows,         \* the result set, each row a mapping column name -> value
    column_names, \* local of the same name
    rowIdx,       \* rows consumed by the for loop
    row_count,    \* local of the same name
    tempFile,     \* the NamedTemporaryFile on disk
    tempCreated,  \* history: this invocation created a temporary file
    posted,       \* history: the records read from the file by the POST
    netCalls,     \* history: network calls attempted
    response,     \* the relay's response
    exc,          \* message of the exception being handled
    raisedAt,     \* history: step that raised
    ret           \* the (body, status) returned

\* ------------------------------------------------------------ upload state
VARIABLES
    fs,           \* local filesystem: path -> entry, absent paths not in DOMAIN
    pc,           \* position of each process_csv_upload invocation
    data,         \* argument data
    filename,     \* argument filename
    fd,           \* the file the invocation's open descriptor refers to
    transport,    \* paramiko.Transport of the invocation
    sftp,         \* paramiko.SFTPClient of the invocation
    opened,       \* history: the transport connection was opened
    chdirResult,  \* history: outcome of sftp.chdir
    putCalled,    \* history: sftp.put was invoked
    putRead,      \* history: what sftp.put read from the local path
    uploadRet,    \* return value of upload_to_sftp
    uexc,         \* message of the exception being handled
    result        \* what process_csv_upload returned (or that it raised)

exportVars == <<epc, encoded_key, schema, rows, column_names, rowIdx, row_count,
                tempFile, tempCreated, posted, netCalls, response, exc,
                raisedAt, ret>>
uploadVars == <<fs, pc, data, filename, fd, transport, sftp, opened, chdirResult,
                putCalled, putRead, uploadRet, uexc, result>>
vars == <<exportVars, uploadVars>>

\* ============================================================== main.py
\* Values of the environment variable: unset (None), empty, not base64,
\* base64 of something that is no JSON, JSON that is no service account
\* record, and a usable key.
KeyValues == {"UNSET", "", "badb64", "notjson", "badinfo", "valid"}

\* Variant: `encoded_key is None`, which lets the empty string through.
KeyIsNone(k) == k = "UNSET"

\* `not encoded_key`
KeyMissing(k) == k \in {"UNSET", ""}

MissingKeyMessage == "SERVICE_ACCOUNT_KEY environment variable is not set"

ColumnNames == {"id", "name"}
NoneValue == "None"
CellValues == {"3", "Smith, J.", NoneValue}

\* csv.writer's rendering of one value: None becomes the empty field,
\* everything else its string.
CsvField(v) == IF v = NoneValue THEN "" ELSE v

\* Sequences over S without repetition, of length 1..Cardinality(S).
Injective(S) ==
    UNION { { s \in [1..n -> S] : \A i, j \in 1..n : s[i] = s[j] => i = j }
            : n \in 1..Cardinality(S) }

Schemas == Injective(ColumnNames)

Range(s) == { s[i] : i \in DOMAIN s }

ResultSets(sch) ==
    UNION { [1..n -> [Range(sch) -> CellValues]] : n \in 0..MaxRows }

HttpStatuses == {200, 201, 404, 503}
ResponseTexts == {"", "upstream said: no"}

NoFile == [exists |-> FALSE, records |-> <<>>]
NoResponse == [status_code |-> 0, text |-> ""]
NoReturn == [status |-> 0, kind |-> "none", rows |-> 0, text |-> ""]

\* line 89
SuccessReturn(n) ==
    [status |-> 200, kind |-> "success", rows |-> n, text |-> ""]
\* line 91
RelayErrorReturn(r) ==
    [status |-> 500, kind |-> "relay_error", rows |-> 0, text |-> r.text]
\* line 95
ExceptionReturn(e) ==
    [status |-> 500, kind |-> "exception", rows |-> 0, text |-> e]

\* Variant: the values taken in the reverse of the schema's column order.
RowValuesReversed(row, cols) ==
    [j \in 1..Len(cols) |-> CsvField(row[cols[Len(cols) + 1 - j]])]

\* [row[column] for column in column_names], as csv.writer renders it
RowValues(row, cols) == [j \in 1..Len(cols) |-> CsvField(row[cols[j]])]

\* Variant: `response.ok`, true of every status below 400.
UploadSucceededAnyOk(r) == r.status_code < 400

\* response.status_code == 200
UploadSucceeded(r) == r.status_code = 200

InitExportVars ==
    /\ epc = "start"
    /\ encoded_key \in KeyValues
    /\ schema = <<>>
    /\ rows = <<>>
    /\ column_names = <<>>
    /\ rowIdx = 0
    /\ row_count = 0
    /\ tempFile = NoFile
    /\ tempCreated = FALSE
    /\ posted = <<>>
    /\ netCalls = 0
    /\ response = NoResponse
    /\ exc = ""
    /\ raisedAt = "none"
    /\ ret = NoReturn

\* An exception raised at `step` with message `msg`: control moves to the
\* handler of line 93.
Raise(step, msg) ==
    /\ epc' = "except"
    /\ exc' = msg
    /\ raisedAt' = step

\* lines 21-23
GetKey ==
    /\ epc = "start"
    /\ IF KeyMissing(encoded_key)
         THEN Raise("key", MissingKeyMessage)
         ELSE epc' = "decode" /\ UNCHANGED <<exc, raisedAt>>
    /\ UNCHANGED <<uploadVars, encoded_key, schema, rows, column_names, rowIdx, row_count,
                   tempFile, tempCreated, posted, netCalls, response, ret>>

\* line 26
DecodeKey ==
    /\ epc = "decode"
    /\ IF encoded_key = "badb64"
         THEN Raise("decode", "Incorrect padding")
         ELSE epc' = "creds" /\ UNCHANGED <<exc, raisedAt>>
    /\ UNCHANGED <<uploadVars, encoded_key, schema, rows, column_names, rowIdx, row_count,
                   tempFile, tempCreated, posted, netCalls, response, ret>>

\* lines 29-38
MakeCredentials ==
    /\ epc = "creds"
    /\ CASE encoded_key = "notjson" -> Raise("creds", "Expecting value")
         [] encoded_key = "badinfo" -> Raise("creds", "missing fields")
         [] OTHER -> epc' = "client" /\ UNCHANGED <<exc, raisedAt>>
    /\ UNCHANGED <<uploadVars, encoded_key, schema, rows, column_names, rowIdx, row_count,
                   tempFile, tempCreated, posted, netCalls, response, ret>>

\* lines 41-44
MakeClient ==
    /\ epc = "client"
    /\ epc' = "query"
    /\ UNCHANGED <<uploadVars, encoded_key, schema, rows, column_names, rowIdx, row_count,
                   tempFile, tempCreated, posted, netCalls, response, exc,
                   raisedAt, ret>>

\* lines 53-54: the query runs in the warehouse and either yields a result
\* set or raises.
RunQuery ==
    /\ epc = "query"
    /\ netCalls' = netCalls + 1
    /\ \/ /\ \E sch \in Schemas : \E rs \in ResultSets(sch) :
                schema' = sch /\ rows' = rs
          /\ epc' = "schema"
          /\ UNCHANGED <<exc, raisedAt>>
       \/ /\ Raise("query", "query failed")
          /\ UNCHANGED <<schema, rows>>
    /\ UNCHANGED <<uploadVars, encoded_key, column_names, rowIdx, row_count, tempFile,
                   tempCreated, posted, response, ret>>

\* line 57
ReadSchema ==
    /\ epc = "schema"
    /\ column_names' = schema
    /\ epc' = "mktemp"
    /\ UNCHANGED <<uploadVars, encoded_key, schema, rows, rowIdx, row_count, tempFile,
                   tempCreated, posted, netCalls, response, exc, raisedAt, ret>>

\* lines 60-62: NamedTemporaryFile(delete=False) creates the file or raises.
CreateTemp ==
    /\ epc = "mktemp"
    /\ \/ /\ tempFile' = [exists |-> TRUE, records |-> <<>>]
          /\ tempCreated' = TRUE
          /\ epc' = "header"
          /\ UNCHANGED <<exc, raisedAt>>
       \/ /\ Raise("mktemp", "No usable temporary directory")
          /\ UNCHANGED <<tempFile, tempCreated>>
    /\ UNCHANGED <<uploadVars, encoded_key, schema, rows, column_names, rowIdx, row_count,
                   posted, netCalls, response, ret>>

\* line 65
WriteHeader ==
    /\ epc = "header"
    /\ \/ /\ tempFile' = [tempFile EXCEPT !.records = Append(@, column_names)]
          /\ epc' = "rows"
          /\ UNCHANGED <<exc, raisedAt>>
       \/ /\ Raise("header", "No space left on device")
          /\ UNCHANGED tempFile
    /\ UNCHANGED <<uploadVars, encoded_key, schema, rows, column_names, rowIdx, row_count,
                   tempCreated, posted, netCalls, response, ret>>

\* lines 69-73: one turn of the loop; fetching the next row or writing it
\* may raise.
WriteRow ==
    /\ epc = "rows"
    /\ rowIdx < Len(rows)
    /\ \/ /\ tempFile' = [tempFile EXCEPT !.records =
                             Append(@, RowValues(rows[rowIdx + 1], column_names))]
          /\ rowIdx' = rowIdx + 1
          /\ row_count' = row_count + 1
          /\ UNCHANGED <<epc, exc, raisedAt>>
       \/ /\ Raise("rows", "row iteration failed")
          /\ UNCHANGED <<tempFile, rowIdx, row_count>>
    /\ UNCHANGED <<uploadVars, encoded_key, schema, rows, column_names, tempCreated, posted,
                   netCalls, response, ret>>

\* line 76 and the end of the with block of line 60
CloseTemp ==
    /\ epc = "rows"
    /\ rowIdx = Len(rows)
    /\ epc' = "open"
    /\ UNCHANGED <<uploadVars, encoded_key, schema, rows, column_names, rowIdx, row_count,
                   tempFile, tempCreated, posted, netCalls, response, exc,
                   raisedAt, ret>>

\* line 79
OpenForRead ==
    /\ epc = "open"
    /\ \/ epc' = "post" /\ UNCHANGED <<exc, raisedAt>>
       \/ Raise("open", "Too many open files")
    /\ UNCHANGED <<uploadVars, encoded_key, schema, rows, column_names, rowIdx, row_count,
                   tempFile, tempCreated, posted, netCalls, response, ret>>

\* lines 80-82: one POST; the relay answers with any status and body, or
\* requests raises (connection refused, timeout, ...).
Post ==
    /\ epc = "post"
    /\ netCalls' = netCalls + 1
    /\ posted' = tempFile.records
    /\ \/ /\ \E s \in HttpStatuses, t \in ResponseTexts :
                response' = [status_code |-> s, text |-> t]
          /\ epc' = "unlink"
          /\ UNCHANGED <<exc, raisedAt>>
       \/ /\ Raise("post", "Connection refused")
          /\ UNCHANGED response
    /\ UNCHANGED <<uploadVars, encoded_key, schema, rows, column_names, rowIdx, row_count,
                   tempFile, tempCreated, ret>>

\* Variant: the file is not removed before the status is inspected.
UnlinkSkipped ==
    /\ epc = "unlink"
    /\ epc' = "check"
    /\ UNCHANGED <<uploadVars, encoded_key, schema, rows, column_names, rowIdx,
                   row_count, tempFile, tempCreated, posted, netCalls, response,
                   exc, raisedAt, ret>>

\* line 85
Unlink ==
    /\ epc = "unlink"
    /\ IF tempFile.exists
         THEN /\ tempFile' = NoFile
              /\ epc' = "check"
              /\ UNCHANGED <<exc, raisedAt>>
         ELSE /\ Raise("unlink", "No such file or directory")
              /\ UNCHANGED tempFile
    /\ UNCHANGED <<uploadVars, encoded_key, schema, rows, column_names, rowIdx, row_count,
                   tempCreated, posted, netCalls, response, ret>>

\* lines 88-91
Respond ==
    /\ epc = "check"
    /\ ret' = IF UploadSucceeded(response)
                THEN SuccessReturn(row_count)
                ELSE RelayErrorReturn(response)
    /\ epc' = "done"
    /\ UNCHANGED <<uploadVars, encoded_key, schema, rows, column_names, rowIdx, row_count,
                   tempFile, tempCreated, posted, netCalls, response, exc,
                   raisedAt>>

\* lines 93-95
HandleException ==
    /\ epc = "except"
    /\ ret' = ExceptionReturn(exc)
    /\ epc' = "done"
    /\ UNCHANGED <<uploadVars, encoded_key, schema, rows, column_names, rowIdx, row_count,
                   tempFile, tempCreated, posted, netCalls, response, exc,
                   raisedAt>>

ExportNext ==
    \/ GetKey \/ DecodeKey \/ MakeCredentials \/ MakeClient \/ RunQuery
    \/ ReadSchema \/ CreateTemp \/ WriteHeader \/ WriteRow \/ CloseTemp
    \/ OpenForRead \/ Post \/ Unlink \/ Respond \/ HandleException

\* ======================================================== sftp_upload.py
Procs == {1, 2}

Filenames == {"", "a.csv", "b.csv"}
Payloads == {"payload-A", "payload-B"}
DataValues == [kind : {"bytes", "stream"}, content : Payloads]

\* Variant: one fixed local path, whatever the filename.
FixedTempPath(fn) == "/tmp/" \o "upload.csv"

\* line 52: f"/tmp/{filename}"
TempPath(fn) == "/tmp/" \o fn

\* Filesystem entries.  ino names the invocation that created the file
\* (0: it was there before), so that a write through a descriptor whose
\* file was unlinked meanwhile does not show under the path.
DirEntry == [kind |-> "dir", content |-> "", ino |-> 0]
FileEntry(c, i) == [kind |-> "file", content |-> c, ino |-> i]
Missing == "<no such file>"
NotRead == "<put not reached>"

\* os.path.exists
PathExists(f, path) == path \in DOMAIN f
IsFile(f, path) == path \in DOMAIN f /\ f[path].kind = "file"

\* Variant: the removal leaves the file in place.
RemovedNothing(f, path) == f

\* os.remove of a regular file
Removed(f, path) == [q \in DOMAIN f \ {path} |-> f[q]]

\* /tmp itself, and possibly a file left behind under one of the names.
InitialFS ==
    { ("/tmp/" :> DirEntry) @@ [q \in S |-> FileEntry("stale", 0)]
        : S \in { {}, {TempPath("a.csv")} } }

NoResult == [kind |-> "none", status |-> "", message |-> ""]
\* line 69
SuccessResult(fn) ==
    [kind |-> "returned", status |-> "success",
     message |-> "File " \o fn \o " uploaded successfully"]
\* line 71
FailedResult ==
    [kind |-> "returned", status |-> "error", message |-> "Failed to upload file"]
\* line 77
ErrorResult(e) == [kind |-> "returned", status |-> "error", message |-> e]
\* an exception leaving process_csv_upload
RaisedResult(e) == [kind |-> "raised", status |-> "", message |-> e]

InitUploadVars(called) ==
    /\ fs \in InitialFS
    /\ pc = [p \in Procs |-> IF p \in called THEN "idle" ELSE "unused"]
    /\ data = [p \in Procs |-> [kind |-> "bytes", content |-> ""]]
    /\ filename = [p \in Procs |-> ""]
    /\ fd = [p \in Procs |-> 0]
    /\ transport = [p \in Procs |-> "none"]
    /\ sftp = [p \in Procs |-> "none"]
    /\ opened = [p \in Procs |-> FALSE]
    /\ chdirResult = [p \in Procs |-> "none"]
    /\ putCalled = [p \in Procs |-> FALSE]
    /\ putRead = [p \in Procs |-> NotRead]
    /\ uploadRet = [p \in Procs |-> "none"]
    /\ uexc = [p \in Procs |-> ""]
    /\ result = [p \in Procs |-> NoResult]

Goto(p, label) == pc' = [pc EXCEPT ![p] = label]

\* An exception inside process_csv_upload's try block: to line 73.
RaiseInProcess(p, msg) ==
    /\ pc' = [pc EXCEPT ![p] = "handler"]
    /\ uexc' = [uexc EXCEPT ![p] = msg]

\* An exception inside upload_to_sftp's try block: to line 45.
RaiseInUpload(p, msg) ==
    /\ pc' = [pc EXCEPT ![p] = "uhandler"]
    /\ uexc' = [uexc EXCEPT ![p] = msg]

\* The caller invokes process_csv_upload(data, filename, project_id).
Call(p) ==
    /\ pc[p] = "idle"
    /\ \E d \in DataValues, fn \in Filenames :
          /\ data' = [data EXCEPT ![p] = d]
          /\ filename' = [filename EXCEPT ![p] = fn]
    /\ Goto(p, "open")
    /\ UNCHANGED <<exportVars, fs, fd, transport, sftp, opened, chdirResult, putCalled,
                   putRead, uploadRet, uexc, result>>

\* lines 55 / 58: open(temp_path, "wb") creates the file or truncates the
\* one that is there; it raises on a directory, and may be refused.
OpenLocal(p) ==
    LET path == TempPath(filename[p]) IN
    /\ pc[p] = "open"
    /\ IF PathExists(fs, path) /\ ~IsFile(fs, path)
         THEN RaiseInProcess(p, "Is a directory") /\ UNCHANGED <<fs, fd>>
         ELSE \/ /\ fs' = IF IsFile(fs, path)
                            THEN [fs EXCEPT ![path].content = ""]
                            ELSE (path :> FileEntry("", p)) @@ fs
                 /\ fd' = [fd EXCEPT ![p] = fs'[path].ino]
                 /\ Goto(p, "write")
                 /\ UNCHANGED uexc
              \/ /\ RaiseInProcess(p, "Permission denied")
                 /\ UNCHANGED <<fs, fd>>
    /\ UNCHANGED <<exportVars, data, filename, transport, sftp, opened, chdirResult,
                   putCalled, putRead, uploadRet, result>>

\* lines 56 / 59 and the end of the with block: data.read() of a stream may
\* raise, the write may raise; a write that succeeds puts the payload into
\* the file the descriptor refers to.
WriteLocal(p) ==
    LET path == TempPath(filename[p]) IN
    /\ pc[p] = "write"
    /\ \/ /\ fs' = IF IsFile(fs, path) /\ fs[path].ino = fd[p]
                     THEN [fs EXCEPT ![path].content = data[p].content]
                     ELSE fs
          /\ Goto(p, "secrets")
          /\ UNCHANGED uexc
       \/ /\ data[p].kind = "stream"
          /\ RaiseInProcess(p, "read failed")
          /\ UNCHANGED fs
       \/ /\ RaiseInProcess(p, "No space left on device")
          /\ UNCHANGED fs
    /\ UNCHANGED <<exportVars, data, filename, fd, transport, sftp, opened, chdirResult,
                   putCalled, putRead, uploadRet, result>>

\* ---- upload_to_sftp(temp_path, filename, project_id), called at line 62

\* lines 16-19
GetSecrets(p) ==
    /\ pc[p] = "secrets"
    /\ \/ Goto(p, "transport") /\ UNCHANGED uexc
       \/ RaiseInUpload(p, "secret not found")
    /\ UNCHANGED <<exportVars, fs, data, filename, fd, transport, sftp, opened,
                   chdirResult, putCalled, putRead, uploadRet, result>>

\* line 22
NewTransport(p) ==
    /\ pc[p] = "transport"
    /\ \/ /\ transport' = [transport EXCEPT ![p] = "open"]
          /\ opened' = [opened EXCEPT ![p] = TRUE]
          /\ Goto(p, "connect")
          /\ UNCHANGED uexc
       \/ /\ RaiseInUpload(p, "Unable to connect")
          /\ UNCHANGED <<transport, opened>>
    /\ UNCHANGED <<exportVars, fs, data, filename, fd, sftp, chdirResult, putCalled,
                   putRead, uploadRet, result>>

\* line 23
Connect(p) ==
    /\ pc[p] = "connect"
    /\ \/ Goto(p, "session") /\ UNCHANGED uexc
       \/ RaiseInUpload(p, "Authentication failed")
    /\ UNCHANGED <<exportVars, fs, data, filename, fd, transport, sftp, opened,
                   chdirResult, putCalled, putRead, uploadRet, result>>

\* line 24
OpenSession(p) ==
    /\ pc[p] = "session"
    /\ \/ /\ sftp' = [sftp EXCEPT ![p] = "open"]
          /\ Goto(p, "chdir")
          /\ UNCHANGED uexc
       \/ /\ RaiseInUpload(p, "Channel closed")
          /\ UNCHANGED sftp
    /\ UNCHANGED <<exportVars, fs, data, filename, fd, transport, opened, chdirResult,
                   putCalled, putRead, uploadRet, result>>

\* lines 27-29: chdir succeeds, raises IOError (no such directory, access
\* denied), or raises something that is no IOError (paramiko's SFTPError
\* for a path that is no directory, SSHException, EOFError).
Chdir(p) ==
    /\ pc[p] = "chdir"
    /\ \/ /\ chdirResult' = [chdirResult EXCEPT ![p] = "ok"]
          /\ Goto(p, "put")
          /\ UNCHANGED uexc
       \/ /\ chdirResult' = [chdirResult EXCEPT ![p] = "IOError"]
          /\ Goto(p, "chdirfailed")
          /\ UNCHANGED uexc
       \/ /\ chdirResult' = [chdirResult EXCEPT ![p] = "other"]
          /\ RaiseInUpload(p, "Not a directory")
    /\ UNCHANGED <<exportVars, fs, data, filename, fd, transport, sftp, opened,
                   putCalled, putRead, uploadRet, result>>

\* lines 30-32
ChdirFailed(p) ==
    /\ pc[p] = "chdirfailed"
    /\ transport' = [transport EXCEPT ![p] = "closed"]
    /\ uploadRet' = [uploadRet EXCEPT ![p] = "False"]
    /\ Goto(p, "exists")
    /\ UNCHANGED <<exportVars, fs, data, filename, fd, sftp, opened, chdirResult,
                   putCalled, putRead, uexc, result>>

\* lines 35-36: put reads the local file and sends it; it raises when the
\* local path is no file, and may raise while sending.
Put(p) ==
    LET path == TempPath(filename[p]) IN
    /\ pc[p] = "put"
    /\ putCalled' = [putCalled EXCEPT ![p] = TRUE]
    /\ IF IsFile(fs, path)
         THEN /\ putRead' = [putRead EXCEPT ![p] = fs[path].content]
              /\ \/ Goto(p, "close") /\ UNCHANGED uexc
                 \/ RaiseInUpload(p, "Socket is closed")
         ELSE /\ putRead' = [putRead EXCEPT ![p] = Missing]
              /\ RaiseInUpload(p, "No such file or directory")
    /\ UNCHANGED <<exportVars, fs, data, filename, fd, transport, sftp, opened,
                   chdirResult, uploadRet, result>>

\* line 39
CloseSession(p) ==
    /\ pc[p] = "close"
    /\ sftp' = [sftp EXCEPT ![p] = "closed"]
    /\ Goto(p, "closetransport")
    /\ UNCHANGED <<exportVars, fs, data, filename, fd, transport, opened, chdirResult,
                   putCalled, putRead, uploadRet, uexc, result>>

\* lines 40-43
CloseTransport(p) ==
    /\ pc[p] = "closetransport"
    /\ transport' = [transport EXCEPT ![p] = "closed"]
    /\ uploadRet' = [uploadRet EXCEPT ![p] = "True"]
    /\ Goto(p, "exists")
    /\ UNCHANGED <<exportVars, fs, data, filename, fd, sftp, opened, chdirResult,
                   putCalled, putRead, uexc, result>>

\* lines 45-47
UploadHandler(p) ==
    /\ pc[p] = "uhandler"
    /\ uploadRet' = [uploadRet EXCEPT ![p] = "False"]
    /\ Goto(p, "exists")
    /\ UNCHANGED <<exportVars, fs, data, filename, fd, transport, sftp, opened,
                   chdirResult, putCalled, putRead, uexc, result>>

\* ---- back in process_csv_upload

\* line 65
CheckExists(p) ==
    /\ pc[p] = "exists"
    /\ IF PathExists(fs, TempPath(filename[p]))
         THEN Goto(p, "remove")
         ELSE Goto(p, "return")
    /\ UNCHANGED <<exportVars, fs, data, filename, fd, transport, sftp, opened,
                   chdirResult, putCalled, putRead, uploadRet, uexc, result>>

\* line 66: os.remove removes a regular file and raises otherwise.
Remove(p) ==
    LET path == TempPath(filename[p]) IN
    /\ pc[p] = "remove"
    /\ IF IsFile(fs, path)
         THEN /\ fs' = Removed(fs, path)
              /\ Goto(p, "return")
              /\ UNCHANGED uexc
         ELSE /\ RaiseInProcess(p, "cannot remove")
              /\ UNCHANGED fs
    /\ UNCHANGED <<exportVars, data, filename, fd, transport, sftp, opened, chdirResult,
                   putCalled, putRead, uploadRet, result>>

\* lines 68-71
Return(p) ==
    /\ pc[p] = "return"
    /\ result' = [result EXCEPT ![p] =
                     IF uploadRet[p] = "True"
                       THEN SuccessResult(filename[p])
                       ELSE FailedResult]
    /\ Goto(p, "done")
    /\ UNCHANGED <<exportVars, fs, data, filename, fd, transport, sftp, opened,
                   chdirResult, putCalled, putRead, uploadRet, uexc>>

\* lines 73-75
HandlerExists(p) ==
    /\ pc[p] = "handler"
    /\ IF PathExists(fs, TempPath(filename[p]))
         THEN Goto(p, "hremove")
         ELSE Goto(p, "hreturn")
    /\ UNCHANGED <<exportVars, fs, data, filename, fd, transport, sftp, opened,
                   chdirResult, putCalled, putRead, uploadRet, uexc, result>>

\* line 76: nothing catches what os.remove raises here.
HandlerRemove(p) ==
    LET path == TempPath(filename[p]) IN
    /\ pc[p] = "hremove"
    /\ IF IsFile(fs, path)
         THEN /\ fs' = Removed(fs, path)
              /\ Goto(p, "hreturn")
              /\ UNCHANGED result
         ELSE /\ result' = [result EXCEPT ![p] = RaisedResult("cannot remove")]
              /\ Goto(p, "done")
              /\ UNCHANGED fs
    /\ UNCHANGED <<exportVars, data, filename, fd, transport, sftp, opened, chdirResult,
                   putCalled, putRead, uploadRet, uexc>>

\* line 77
HandlerReturn(p) ==
    /\ pc[p] = "hreturn"
    /\ result' = [result EXCEPT ![p] = ErrorResult(uexc[p])]
    /\ Goto(p, "done")
    /\ UNCHANGED <<exportVars, fs, data, filename, fd, transport, sftp, opened,
                   chdirResult, putCalled, putRead, uploadRet, uexc>>

UploadNext ==
    \E p \in Procs :
        \/ Call(p) \/ OpenLocal(p) \/ WriteLocal(p)
        \/ GetSecrets(p) \/ NewTransport(p) \/ Connect(p) \/ OpenSession(p)
        \/ Chdir(p) \/ ChdirFailed(p) \/ Put(p) \/ CloseSession(p)
        \/ CloseTransport(p) \/ UploadHandler(p)
        \/ CheckExists(p) \/ Remove(p) \/ Return(p)
        \/ HandlerExists(p) \/ HandlerRemove(p) \/ HandlerReturn(p)

\* ======================================================== specifications
\* One invocation of export_and_upload.
InitExport == InitExportVars /\ InitUploadVars({})
SpecExport == InitExport /\ [][ExportNext]_vars

\* One invocation of process_csv_upload.
Init == InitExportVars /\ encoded_key = "valid" /\ InitUploadVars({1})
Spec == Init /\ [][UploadNext]_vars

\* Two concurrent invocations of process_csv_upload.
InitConc == InitExportVars /\ encoded_key = "valid" /\ InitUploadVars(Procs)
SpecConc == InitConc /\ [][UploadNext]_vars

\* ================================================================ claims

\* C1 (SpecExport): when export_and_upload has returned, the temporary file
\* it created no longer exists, whatever step failed or succeeded.
C1_TempFileGone ==
    (epc = "done" /\ tempCreated) => ~tempFile.exists

\* C2 (Spec): when a single call of process_csv_upload has returned, with
\* status success or error, the local path /tmp/<filename> does not exist.
C2_LocalPathGone ==
    \A p \in Procs :
        result[p].kind = "returned" => ~PathExists(fs, TempPath(filename[p]))

\* C2 witness: the call wrote the payload, the transfer read it, and the
\* call returned.
C2_Witness ==
    /\ result[1].kind = "returned"
    /\ putRead[1] = data[1].content
    /\ result[1].status = "success"

\* C3 (Spec): process_csv_upload never lets an exception escape; it ends by
\* returning status success or error, and success exactly when
\* upload_to_sftp returned True.
C3_NeverRaises ==
    \A p \in Procs :
        pc[p] = "done" =>
            /\ result[p].kind = "returned"
            /\ result[p].status \in {"success", "error"}
            /\ (result[p].status = "success") <=> (uploadRet[p] = "True")

\* C4 (Spec): once changing to the remote directory has failed, sftp.put is
\* never invoked in that invocation, and when upload_to_sftp has returned it
\* returned False with the transport closed.
C4_ChdirFailure ==
    \A p \in Procs :
        chdirResult[p] \in {"IOError", "other"} =>
            /\ ~putCalled[p]
            /\ uploadRet[p] # "True"
            /\ uploadRet[p] = "False" => transport[p] = "closed"

\* The part of C4 the code keeps: the same, for the IOError that lines 29-32
\* handle.
C4_HandledIOError ==
    \A p \in Procs :
        chdirResult[p] = "IOError" =>
            /\ ~putCalled[p]
            /\ uploadRet[p] # "True"
            /\ uploadRet[p] = "False" => transport[p] = "closed"

\* C5 (SpecExport): nothing is returned before the end; what is returned has
\* status 200 or 500; it is 200, with the success message, exactly when no
\* step raised and the relay answered 200 (the query and the POST were both
\* made); every other outcome is a 500.
C5_SuccessOnlyWhenAllSucceeded ==
    /\ epc # "done" => ret = NoReturn
    /\ epc = "done" =>
          /\ ret.status \in {200, 500}
          /\ (ret.status = 200) <=>
                (raisedAt = "none" /\ response.status_code = 200)
          /\ ret.status = 200 => (ret.kind = "success" /\ netCalls = 2)
          /\ ret.status = 500 => ret.kind \in {"relay_error", "exception"}

\* C5 witness: the relay answered with a 2xx status other than 200 and the
\* invocation returned.
C5_Witness ==
    /\ epc = "done"
    /\ response.status_code = 201
    /\ ret.status = 500

C7_MissingKey ==
    encoded_key \in {"UNSET", ""} =>
        /\ netCalls = 0
        /\ ~tempCreated
        /\ ~tempFile.exists
        /\ epc = "done" => ret = ExceptionReturn(MissingKeyMessage)

\* C7 witness: the key is the empty string and the invocation returned.
C7_Witness ==
    /\ encoded_key = ""
    /\ epc = "done"
    /\ ret.status = 500

\* The records a result set is to be exported as: the schema's column names,
\* then one record per row in result order, values in schema order.
ExpectedRecords ==
    <<schema>> \o
    [i \in 1..Len(rows) |->
        [j \in 1..Len(schema) |-> CsvField(rows[i][schema[j]])]]

\* C8 (SpecExport): once the export file is written it holds one header
\* record with the schema's column names and then one record per row, in
\* result order and schema column order; that is what the POST reads; and
\* the row count of the success message is the number of rows.
C8_ExportFileContents ==
    /\ epc \in {"open", "post"} =>
          /\ tempFile.records = ExpectedRecords
          /\ Len(tempFile.records) = 1 + Len(rows)
          /\ row_count = Len(rows)
    /\ ret.kind = "success" =>
          /\ posted = ExpectedRecords
          /\ ret.rows = Len(rows)

\* C8 witness: a result of two columns and at least two rows, one of them
\* with different values in its columns, was exported and reported.
C8_Witness ==
    /\ ret.kind = "success"
    /\ Len(schema) = 2
    /\ Len(rows) >= 2
    /\ rows[1]["id"] # rows[1]["name"]

\* Invocation p is the only one using its filename.
OwnFilename(p) == \A q \in Procs \ {p} : pc[q] \in {"unused", "idle"} \/ filename[q] # filename[p]

\* C9 (SpecConc): an invocation whose filename no other invocation uses is not
\* disturbed through the local path: its transfer reads exactly its own
\* payload, and (unless its path is a directory) no exception leaves it.
C9_DistinctFilenamesIsolated ==
    \A p \in Procs :
        (pc[p] = "done" /\ OwnFilename(p)) =>
            /\ putRead[p] \in {NotRead, data[p].content}
            /\ filename[p] # "" => result[p].kind = "returned"

\* C9 witness: two invocations with the same filename and different
\* payloads; the transfer of one read the other's payload, and the transfer
\* of the other found the file already removed.
C9_Witness ==
    /\ filename[1] = filename[2]
    /\ data[1].content # data[2].content
    /\ putRead[1] = data[2].content
    /\ putRead[2] = Missing

\* C10 (Spec): whenever upload_to_sftp has returned after its transport
\* connection was opened, the transport has been closed.
C10_TransportClosed ==
    \A p \in Procs :
        (uploadRet[p] # "none" /\ opened[p]) => transport[p] = "closed"

=============================================================================
